---- MODULE Spec2Model ----
(***************************************************************************)
(* GCE resource-count exporters.  Three programs share one design:         *)
(*   "pull"    src/unnamed/part_000  gcloud subprocess -> Prometheus gauges *)
(*   "push"    src/unnamed/part_001  compute API -> custom metrics (int64)  *)
(*   "pushgce" src/monitoring/gce/resource_metrics.go                       *)
(*                                   compute API -> custom metrics (double) *)
(* Each registers its metrics, then loops forever: process every metric    *)
(* kind in order, sleep, repeat.                                            *)
(***************************************************************************)
EXTENDS Integers, Sequences, FiniteSets, TLC

(* ----------------------------- bounds ---------------------------------- *)
\* longest list of resources the programs group by a field (firewalls, addresses)
MaxItems == 2
\* longest list of resources the programs only count
MaxCount == 1
\* number of scopes (zones/regions) an AggregatedList response can name
NumScopes == 2
\* longest per-scope list inside an AggregatedList response
MaxScoped == 2

(* --------------------------- value domains ----------------------------- *)
Variants == {"pull", "push", "pushgce"}
\* values of compute.Firewall.Network
NetworkNames == {"default", "prod"}
\* values of compute.Address.Status
Statuses == {"RESERVED", "IN_USE"}
\* a resource whose fields the programs never read (only counted)
Opaque == {"r"}
Scopes == 1..NumScopes

\* a Go map with no entries (also a nil map, and a nil or empty slice)
EmptyMap == <<>>

SeqsUpTo(S, n) == UNION {[1..k -> S] : k \in 0..n}

\* the Items of a successful List call, or a decoded gcloud JSON array:
\* a slice of resources, each modelled by the one field the program groups by
ListResponses(Field) == SeqsUpTo(Field, MaxItems)

\* the same for a list whose elements are only counted
CountResponses == SeqsUpTo(Opaque, MaxCount)

\* the Items of a successful AggregatedList call: a map scope -> scoped list
AggregatedResponses(Field) ==
    UNION {[D -> SeqsUpTo(Field, MaxScoped)] : D \in SUBSET Scopes}

RECURSIVE SumLens(_, _)
SumLens(items, D) ==
    IF D = {} THEN 0
    ELSE LET s == CHOOSE x \in D : TRUE
         IN Len(items[s]) + SumLens(items, D \ {s})

\* number of resources a response carries
ListTotal(items) == Len(items)
AggregatedTotal(items) == SumLens(items, DOMAIN items)

\* the orders in which a Go `for k := range m` may visit the keys S
Orders(S) ==
    {o \in [1..Cardinality(S) -> S] : \A i, j \in DOMAIN o : i # j => o[i] # o[j]}

VARIABLES
    variant,      \* which of the three programs runs
    pc,           \* "register" | "spawn" (pull) | "scrape" | "sleep" | "fatal"
    idx,          \* position in the list of metrics being registered / processed
    registered,   \* descriptors the sink has accepted
    gauges,       \* pull: exposed value of every gauge child, name -> (label value -> value)
    lastOp,       \* what the most recent process call fetched and emitted
    cycleLog,     \* metric kinds whose process call has run in the current cycle, in order
    cycleFailed,  \* some process call of the current cycle failed
    listener      \* pull: the /metricsz listener: "off" | "listening" | "serving"

vars == <<variant, pc, idx, registered, gauges, lastOp, cycleLog, cycleFailed, listener>>

\* fmt.Sprintf("custom.cloudmonitoring.googleapis.com/%s", x)
Prefix == "custom.cloudmonitoring.googleapis.com/"
Namespaced(x) == Prefix \o x

(* ----------------------- metric declarations --------------------------- *)
\* part_001: var customMetrics
customMetrics ==
    <<"FirewallRules", "TargetPools", "ForwardingRules", "GlobalForwardingRules",
      "Addresses", "GlobalAddresses", "Networks", "Routes">>

\* part_001: the eight MetricDescription() methods
MetricDescription(m) ==
    CASE m = "FirewallRules"         -> [Name |-> "gce_firewall_rules", Labels |-> <<"network">>]
      [] m = "TargetPools"           -> [Name |-> "gce_target_pools", Labels |-> <<>>]
      [] m = "ForwardingRules"       -> [Name |-> "gce_forwarding_rules", Labels |-> <<>>]
      [] m = "GlobalForwardingRules" -> [Name |-> "gce_global_forwarding_rules", Labels |-> <<>>]
      [] m = "Addresses"             -> [Name |-> "gce_addresses", Labels |-> <<"status">>]
      [] m = "GlobalAddresses"       -> [Name |-> "gce_global_addresses", Labels |-> <<"status">>]
      [] m = "Networks"              -> [Name |-> "gce_networks", Labels |-> <<"network">>]
      [] m = "Routes"                -> [Name |-> "gce_routes", Labels |-> <<"network">>]

\* resource_metrics.go: var metricDescriptions
metricDescriptions ==
    << [Name |-> "gce_firewall_rules", Labels |-> <<"network">>],
       [Name |-> "gce_target_pools", Labels |-> <<>>],
       [Name |-> "gce_forwarding_rules", Labels |-> <<>>],
       [Name |-> "gce_ip_addresses", Labels |-> <<"status">>],
       [Name |-> "gce_networks", Labels |-> <<"network">>],
       [Name |-> "gce_routes", Labels |-> <<"network">>] >>

\* resource_metrics.go: the order of the Process* calls in main's loop
gceCalls ==
    <<"ProcessFirewallRules", "ProcessIPAddresses", "ProcessForwardingRules",
      "ProcessNetworks", "ProcessRoutes", "ProcessTargetPools">>

\* part_000: the gauges, in the order main registers them
promGauges ==
    << [Name |-> "gce_firewall_rules", Labels |-> <<"network">>],
       [Name |-> "gce_target_pools", Labels |-> <<>>],
       [Name |-> "gce_forwarding_rules", Labels |-> <<>>],
       [Name |-> "gce_ip_addresses", Labels |-> <<"status">>],
       [Name |-> "gce_networks", Labels |-> <<>>],
       [Name |-> "gce_routes", Labels |-> <<>>] >>

\* part_000: the order of the process* calls in runScraper's loop
scraperCalls ==
    <<"processFirewallRules", "processForwadingRules", "processTargetPools",
      "processRoutes", "processNetworks", "processAddresses">>

\* the calls one cycle of the running program makes, in order
Calls ==
    CASE variant = "pull" -> scraperCalls
      [] variant = "push" -> customMetrics
      [] variant = "pushgce" -> gceCalls

\* a descriptor as the sink stores it
Descriptor(name, valueType, labels) ==
    [name |-> name, valueType |-> valueType, labels |-> labels]

\* the body of a cloudmonitoring.MetricDescriptor built from a MetricDescription
CustomDescriptor(metric, valueType) ==
    Descriptor(Namespaced(metric.Name), valueType,
               [i \in 1..Len(metric.Labels) |-> Namespaced(metric.Labels[i])])

NoOp ==
    [kind |-> "none", metric |-> "none", outcome |-> "none", total |-> 0,
     scopes |-> 0, metrics |-> EmptyMap, wrote |-> FALSE, points |-> <<>>]

\* the unlabeled child of a prometheus.Gauge
NoLabel == ""

Init ==
    /\ variant \in Variants
    /\ pc = "register"
    /\ idx = 1
    /\ registered = {}
    /\ gauges = IF variant = "pull"
                THEN [n \in {promGauges[i].Name : i \in 1..Len(promGauges)} |->
                        IF n \in {"gce_firewall_rules", "gce_ip_addresses"}
                        THEN EmptyMap ELSE (NoLabel :> 0)]
                ELSE EmptyMap
    /\ lastOp = NoOp
    /\ cycleLog = <<>>
    /\ cycleFailed = FALSE
    /\ listener = "off"

(* --------------------------- registration ------------------------------ *)
\* faulty variant of RegistrationFatal: the failure is only logged (log.Printf
\* for log.Fatalf) and main goes on to the next descriptor
RegistrationLogged ==
    /\ IF idx < Len(customMetrics)
       THEN idx' = idx + 1 /\ pc' = "register"
       ELSE idx' = 1 /\ pc' = "scrape"
    /\ UNCHANGED <<variant, registered, gauges, lastOp, cycleLog, cycleFailed, listener>>

\* log.Fatalf after a failed MetricDescriptors.Create: the process exits
RegistrationFatal ==
    /\ pc' = "fatal"
    /\ UNCHANGED <<variant, idx, registered, gauges, lastOp, cycleLog, cycleFailed, listener>>

\* part_001: one iteration of main's "Register all metrics" loop
createMetricDescriptor ==
    /\ variant = "push"
    /\ pc = "register"
    /\ LET md == CustomDescriptor(MetricDescription(customMetrics[idx]), "int64")
       IN  \/ /\ registered' = registered \cup {md}
              /\ IF idx < Len(customMetrics)
                 THEN idx' = idx + 1 /\ pc' = "register"
                 ELSE idx' = 1 /\ pc' = "scrape"
              /\ UNCHANGED <<variant, gauges, lastOp, cycleLog, cycleFailed, listener>>
           \/ RegistrationFatal

\* resource_metrics.go: the whole loop over descs; Create number n+1 fails, or none does
CreateMetricDescriptors ==
    /\ variant = "pushgce"
    /\ pc = "register"
    /\ \E n \in 0..Len(metricDescriptions) :
          /\ registered' =
                {CustomDescriptor(metricDescriptions[i], "double") : i \in 1..n}
          /\ pc' = IF n = Len(metricDescriptions) THEN "scrape" ELSE "fatal"
          /\ UNCHANGED <<variant, idx, gauges, lastOp, cycleLog, cycleFailed, listener>>

\* part_000: one prometheus.MustRegister call of main (the names are distinct,
\* so it never panics)
MustRegister ==
    /\ variant = "pull"
    /\ pc = "register"
    /\ registered' = registered \cup
          {Descriptor(promGauges[idx].Name, "float64", promGauges[idx].Labels)}
    /\ IF idx < Len(promGauges)
       THEN idx' = idx + 1 /\ pc' = "register"
       ELSE idx' = 1 /\ pc' = "spawn"
    /\ UNCHANGED <<variant, gauges, lastOp, cycleLog, cycleFailed, listener>>

(* ----------------------------- the loop -------------------------------- *)
\* faulty variant of LoopStep: an error breaks out of the cycle, so the calls
\* after the failed one are not made before the sleep
LoopStepAbortOnError(kind, failed) ==
    /\ cycleLog' = Append(cycleLog, kind)
    /\ cycleFailed' = (cycleFailed \/ failed)
    /\ IF idx < Len(Calls) /\ ~failed
       THEN idx' = idx + 1 /\ pc' = "scrape"
       ELSE idx' = idx /\ pc' = "sleep"
    /\ UNCHANGED <<variant, registered, listener>>

\* faulty variant of LoopStep: an error ends the program (log.Fatalf for
\* log.Printf), so the loop does not go on
LoopStepFatalOnError(kind, failed) ==
    /\ cycleLog' = Append(cycleLog, kind)
    /\ cycleFailed' = (cycleFailed \/ failed)
    /\ IF failed
       THEN idx' = idx /\ pc' = "fatal"
       ELSE IF idx < Len(Calls)
            THEN idx' = idx + 1 /\ pc' = "scrape"
            ELSE idx' = idx /\ pc' = "sleep"
    /\ UNCHANGED <<variant, registered, listener>>

\* the loop body after one process call has returned: log its error if any,
\* go on to the next call, and sleep after the last one
LoopStep(kind, failed) ==
    /\ cycleLog' = Append(cycleLog, kind)
    /\ cycleFailed' = (cycleFailed \/ failed)
    /\ IF idx < Len(Calls)
       THEN idx' = idx + 1 /\ pc' = "scrape"
       ELSE idx' = idx /\ pc' = "sleep"
    /\ UNCHANGED <<variant, registered, listener>>

\* time.Sleep(*scrapePeriod) returns and the for loop starts over
Sleep ==
    /\ pc = "sleep"
    /\ pc' = "scrape"
    /\ idx' = 1
    /\ cycleLog' = <<>>
    /\ cycleFailed' = FALSE
    /\ UNCHANGED <<variant, registered, gauges, lastOp, listener>>

\* faulty variant of AtCall: the calls of a cycle are started without waiting
\* for their turn (`go m.ProcessMetric(monitor)`), so any of them may run next
AtCallUnordered(v, kind) ==
    /\ variant = v
    /\ pc = "scrape"
    /\ \E i \in DOMAIN Calls : Calls[i] = kind

\* the process call named kind is the next one the loop makes
AtCall(v, kind) ==
    /\ variant = v
    /\ pc = "scrape"
    /\ Calls[idx] = kind

(* --------------------------- aggregation ------------------------------- *)
\* faulty variant of Increment: metrics[k] = 1 for metrics[k]++
IncrementOverwrite(metrics, k) ==
    IF k \in DOMAIN metrics
    THEN [metrics EXCEPT ![k] = 1]
    ELSE metrics @@ (k :> 1)

\* metrics[k]++ on a Go map[string]int (a missing key reads 0)
Increment(metrics, k) ==
    IF k \in DOMAIN metrics
    THEN [metrics EXCEPT ![k] = @ + 1]
    ELSE metrics @@ (k :> 1)

\* for _, a := range items { metrics[a.Field]++ }
RECURSIVE CountInto(_, _)
CountInto(metrics, items) ==
    IF items = <<>> THEN metrics
    ELSE CountInto(Increment(metrics, Head(items)), Tail(items))

\* part_001 Addresses: the nested loop over the scoped lists of an aggregated list
RECURSIVE CountScoped(_, _, _)
CountScoped(metrics, items, D) ==
    IF D = {} THEN metrics
    ELSE LET s == CHOOSE x \in D : TRUE
         IN CountScoped(CountInto(metrics, items[s]), items, D \ {s})

(* ---------------------------- reporting -------------------------------- *)
\* one cloudmonitoring.TimeseriesPoint (Start = End = now is left out), or one
\* Set call on a gauge child: `field` is the Point field that carries the value
Point(metric, labels, field, value) ==
    [metric |-> metric, labels |-> labels, field |-> field, value |-> value]

\* both push programs: prefix every label key (nil stays nil)
fixLabels(labels) ==
    IF labels = EmptyMap THEN EmptyMap
    ELSE [k \in {Namespaced(l) : l \in DOMAIN labels} |->
            labels[CHOOSE l \in DOMAIN labels : Namespaced(l) = k]]

\* faulty variant of ValuesOf: values filled by a second range over the map,
\* which may visit the keys in another order than the one that filled labels
ValuesOfMisaligned(metrics, order) ==
    [i \in 1..Len(order) |-> metrics[order[Len(order) + 1 - i]]]

\* the slices a labeled ProcessMetric builds by ranging over its map in `order`
ValuesOf(metrics, order) == [i \in 1..Len(order) |-> metrics[order[i]]]
LabelsOf(key, order) == [i \in 1..Len(order) |-> (key :> order[i])]

\* faulty variant of ReportLabeledTimeseries: the value goes into DoubleValue,
\* as in resource_metrics.go, although the descriptors are int64
ReportLabeledTimeseriesAsDouble(name, values, labels) ==
    IF Len(values) = 0
    THEN {[wrote |-> FALSE, points |-> <<>>, err |-> FALSE]}
    ELSE LET points ==
               [i \in 1..Len(values) |->
                  Point(Namespaced(name),
                        IF Len(labels) >= i THEN fixLabels(labels[i]) ELSE EmptyMap,
                        "DoubleValue", values[i])]
         IN {[wrote |-> TRUE, points |-> points, err |-> e] : e \in BOOLEAN}

\* part_001: the possible results of a call. wrote: Timeseries.Write was called;
\* points: the batch it carried; err: the error returned
ReportLabeledTimeseries(name, values, labels) ==
    IF Len(values) = 0
    THEN {[wrote |-> FALSE, points |-> <<>>, err |-> FALSE]}
    ELSE LET points ==
               [i \in 1..Len(values) |->
                  Point(Namespaced(name),
                        IF Len(labels) >= i THEN fixLabels(labels[i]) ELSE EmptyMap,
                        "Int64Value", values[i])]
         IN {[wrote |-> TRUE, points |-> points, err |-> e] : e \in BOOLEAN}

\* part_001
ReportTimeseries(name, value) == ReportLabeledTimeseries(name, <<value>>, <<>>)

\* resource_metrics.go: no early return, the batch is written even when empty
reportLabeledTimeseries(name, values, labels) ==
    LET points ==
          [i \in 1..Len(values) |->
             Point(Namespaced(name),
                   IF Len(labels) >= i THEN fixLabels(labels[i]) ELSE EmptyMap,
                   "DoubleValue", values[i])]
    IN {[wrote |-> TRUE, points |-> points, err |-> e] : e \in BOOLEAN}

\* resource_metrics.go
reportTimeseries(name, value) == reportLabeledTimeseries(name, <<value>>, <<>>)

\* what a process call leaves behind for the properties to read.
\* total: resources in the response; scopes: scoped lists in it (0 for a plain list)
Op(kind, metric, outcome, total, scopes, metrics, wrote, points) ==
    [kind |-> kind, metric |-> metric, outcome |-> outcome, total |-> total,
     scopes |-> scopes, metrics |-> metrics, wrote |-> wrote, points |-> points]

(* ---------------- part_001: the ProcessMetric methods ------------------- *)
\* `return err` from ProcessMetric when the list call failed: nothing is reported
\* and main logs the error
ReturnFetchErr(kind, metric) ==
    /\ lastOp' = Op(kind, metric, "fetchErr", 0, 0, EmptyMap, FALSE, <<>>)
    /\ UNCHANGED gauges
    /\ LoopStep(kind, TRUE)

\* the tail of every ProcessMetric: the report call's error is the method's error
Reported(kind, metric, total, scopes, metrics, r) ==
    /\ lastOp' = Op(kind, metric, IF r.err THEN "reportErr" ELSE "ok",
                    total, scopes, metrics, r.wrote, r.points)
    /\ UNCHANGED gauges
    /\ LoopStep(kind, r.err)

FirewallRules_ProcessMetric ==
    /\ AtCall("push", "FirewallRules")
    /\ \/ ReturnFetchErr("FirewallRules", "gce_firewall_rules")
       \/ \E items \in ListResponses(NetworkNames) :
            LET metrics == CountInto(EmptyMap, items)
            IN \E order \in Orders(DOMAIN metrics) :
                 \E r \in ReportLabeledTimeseries("gce_firewall_rules",
                             ValuesOf(metrics, order), LabelsOf("network", order)) :
                    Reported("FirewallRules", "gce_firewall_rules",
                             ListTotal(items), 0, metrics, r)

TargetPools_ProcessMetric ==
    /\ AtCall("push", "TargetPools")
    /\ \/ ReturnFetchErr("TargetPools", "gce_target_pools")
       \/ \E items \in AggregatedResponses(Opaque) :
            \E r \in ReportTimeseries("gce_target_pools", Cardinality(DOMAIN items)) :
               Reported("TargetPools", "gce_target_pools", AggregatedTotal(items),
                        Cardinality(DOMAIN items), EmptyMap, r)

ForwardingRules_ProcessMetric ==
    /\ AtCall("push", "ForwardingRules")
    /\ \/ ReturnFetchErr("ForwardingRules", "gce_forwarding_rules")
       \/ \E items \in AggregatedResponses(Opaque) :
            \E r \in ReportTimeseries("gce_forwarding_rules", Cardinality(DOMAIN items)) :
               Reported("ForwardingRules", "gce_forwarding_rules", AggregatedTotal(items),
                        Cardinality(DOMAIN items), EmptyMap, r)

GlobalForwardingRules_ProcessMetric ==
    /\ AtCall("push", "GlobalForwardingRules")
    /\ \/ ReturnFetchErr("GlobalForwardingRules", "gce_global_forwarding_rules")
       \/ \E items \in CountResponses :
            \E r \in ReportTimeseries("gce_global_forwarding_rules", Len(items)) :
               Reported("GlobalForwardingRules", "gce_global_forwarding_rules",
                        ListTotal(items), 0, EmptyMap, r)

Addresses_ProcessMetric ==
    /\ AtCall("push", "Addresses")
    /\ \/ ReturnFetchErr("Addresses", "gce_addresses")
       \/ \E items \in AggregatedResponses(Statuses) :
            LET metrics == CountScoped(EmptyMap, items, DOMAIN items)
            IN \E order \in Orders(DOMAIN metrics) :
                 \E r \in ReportLabeledTimeseries("gce_addresses",
                             ValuesOf(metrics, order), LabelsOf("status", order)) :
                    Reported("Addresses", "gce_addresses", AggregatedTotal(items),
                             Cardinality(DOMAIN items), metrics, r)

GlobalAddresses_ProcessMetric ==
    /\ AtCall("push", "GlobalAddresses")
    /\ \/ ReturnFetchErr("GlobalAddresses", "gce_global_addresses")
       \/ \E items \in ListResponses(Statuses) :
            LET metrics == CountInto(EmptyMap, items)
            IN \E order \in Orders(DOMAIN metrics) :
                 \E r \in ReportLabeledTimeseries("gce_global_addresses",
                             ValuesOf(metrics, order), LabelsOf("status", order)) :
                    Reported("GlobalAddresses", "gce_global_addresses",
                             ListTotal(items), 0, metrics, r)

Networks_ProcessMetric ==
    /\ AtCall("push", "Networks")
    /\ \/ ReturnFetchErr("Networks", "gce_networks")
       \/ \E items \in CountResponses :
            \E r \in ReportTimeseries("gce_networks", Len(items)) :
               Reported("Networks", "gce_networks", ListTotal(items), 0, EmptyMap, r)

Routes_ProcessMetric ==
    /\ AtCall("push", "Routes")
    /\ \/ ReturnFetchErr("Routes", "gce_routes")
       \/ \E items \in CountResponses :
            \E r \in ReportTimeseries("gce_routes", Len(items)) :
               Reported("Routes", "gce_routes", ListTotal(items), 0, EmptyMap, r)

(* ------------- resource_metrics.go: the Process* methods ---------------- *)
\* `log.Printf("ERROR: Listing ..."); return` when the list call failed
LogListErr(kind, metric) ==
    /\ lastOp' = Op(kind, metric, "fetchErr", 0, 0, EmptyMap, FALSE, <<>>)
    /\ UNCHANGED gauges
    /\ LoopStep(kind, TRUE)

\* the tail of every Process* method: a report error is logged and dropped
LogReported(kind, metric, total, scopes, metrics, r) ==
    /\ lastOp' = Op(kind, metric, IF r.err THEN "reportErr" ELSE "ok",
                    total, scopes, metrics, r.wrote, r.points)
    /\ UNCHANGED gauges
    /\ LoopStep(kind, r.err)

ProcessFirewallRules ==
    /\ AtCall("pushgce", "ProcessFirewallRules")
    /\ \/ LogListErr("ProcessFirewallRules", "gce_firewall_rules")
       \/ \E items \in ListResponses(NetworkNames) :
            LET metrics == CountInto(EmptyMap, items)
            IN \E order \in Orders(DOMAIN metrics) :
                 \E r \in reportLabeledTimeseries("gce_firewall_rules",
                             ValuesOf(metrics, order), LabelsOf("network", order)) :
                    LogReported("ProcessFirewallRules", "gce_firewall_rules",
                                ListTotal(items), 0, metrics, r)

ProcessTargetPools ==
    /\ AtCall("pushgce", "ProcessTargetPools")
    /\ \/ LogListErr("ProcessTargetPools", "gce_target_pools")
       \/ \E items \in AggregatedResponses(Opaque) :
            \E r \in reportTimeseries("gce_target_pools", Cardinality(DOMAIN items)) :
               LogReported("ProcessTargetPools", "gce_target_pools",
                           AggregatedTotal(items), Cardinality(DOMAIN items), EmptyMap, r)

\* lists the global forwarding rules only
ProcessForwardingRules ==
    /\ AtCall("pushgce", "ProcessForwardingRules")
    /\ \/ LogListErr("ProcessForwardingRules", "gce_forwarding_rules")
       \/ \E items \in CountResponses :
            \E r \in reportTimeseries("gce_forwarding_rules", Len(items)) :
               LogReported("ProcessForwardingRules", "gce_forwarding_rules",
                           ListTotal(items), 0, EmptyMap, r)

ProcessNetworks ==
    /\ AtCall("pushgce", "ProcessNetworks")
    /\ \/ LogListErr("ProcessNetworks", "gce_networks")
       \/ \E items \in CountResponses :
            \E r \in reportTimeseries("gce_networks", Len(items)) :
               LogReported("ProcessNetworks", "gce_networks",
                           ListTotal(items), 0, EmptyMap, r)

ProcessRoutes ==
    /\ AtCall("pushgce", "ProcessRoutes")
    /\ \/ LogListErr("ProcessRoutes", "gce_routes")
       \/ \E items \in CountResponses :
            \E r \in reportTimeseries("gce_routes", Len(items)) :
               LogReported("ProcessRoutes", "gce_routes",
                           ListTotal(items), 0, EmptyMap, r)

\* lists the global addresses only
ProcessIPAddresses ==
    /\ AtCall("pushgce", "ProcessIPAddresses")
    /\ \/ LogListErr("ProcessIPAddresses", "gce_ip_addresses")
       \/ \E items \in ListResponses(Statuses) :
            LET metrics == CountInto(EmptyMap, items)
            IN \E order \in Orders(DOMAIN metrics) :
                 \E r \in reportLabeledTimeseries("gce_ip_addresses",
                             ValuesOf(metrics, order), LabelsOf("status", order)) :
                    LogReported("ProcessIPAddresses", "gce_ip_addresses",
                                ListTotal(items), 0, metrics, r)

(* ----------------- part_000: the process* functions --------------------- *)
\* gauge.Set(v) on the child with label value lv (WithLabelValues creates it)
SetChild(children, lv, v) ==
    IF lv \in DOMAIN children
    THEN [children EXCEPT ![lv] = v]
    ELSE children @@ (lv :> v)

\* for s, c := range metrics { vec.WithLabelValues(s).Set(float64(c)) }
RECURSIVE SetEach(_, _, _)
SetEach(children, metrics, order) ==
    IF order = <<>> THEN children
    ELSE SetEach(SetChild(children, Head(order), metrics[Head(order)]),
                 metrics, Tail(order))

\* faulty variant of WarnAndReturn: a failed fetch zeroes the metric's gauges
WarnAndReturnZero(kind, metric, outcome) ==
    /\ lastOp' = Op(kind, metric, outcome, 0, 0, EmptyMap, FALSE, <<>>)
    /\ gauges' = [gauges EXCEPT ![metric] = [lv \in DOMAIN @ |-> 0]]
    /\ LoopStep(kind, TRUE)

\* `log.Printf("WARN: ..."); return` when gcloud failed ("fetchErr") or its
\* output did not decode ("decodeErr"): no gauge is touched
WarnAndReturn(kind, metric, outcome) ==
    /\ lastOp' = Op(kind, metric, outcome, 0, 0, EmptyMap, FALSE, <<>>)
    /\ UNCHANGED gauges
    /\ LoopStep(kind, TRUE)

\* processFirewallRules / processAddresses, which differ in the resource listed,
\* the field grouped by and the gauge vector set
processLabeled(kind, metric, key, Field) ==
    \/ \E outcome \in {"fetchErr", "decodeErr"} : WarnAndReturn(kind, metric, outcome)
    \/ \E items \in ListResponses(Field) :
         LET metrics == CountInto(EmptyMap, items)
         IN \E order \in Orders(DOMAIN metrics) :
              /\ gauges' = [gauges EXCEPT ![metric] = SetEach(@, metrics, order)]
              /\ lastOp' = Op(kind, metric, "ok", ListTotal(items), 0, metrics, FALSE,
                              [i \in 1..Len(order) |->
                                 Point(metric, (key :> order[i]), "float64",
                                       metrics[order[i]])])
              /\ LoopStep(kind, FALSE)

\* the four functions that set a plain gauge to the length of the decoded list
processCount(kind, metric) ==
    \/ \E outcome \in {"fetchErr", "decodeErr"} : WarnAndReturn(kind, metric, outcome)
    \/ \E items \in CountResponses :
         /\ gauges' = [gauges EXCEPT ![metric] = SetChild(@, NoLabel, Len(items))]
         /\ lastOp' = Op(kind, metric, "ok", ListTotal(items), 0, EmptyMap, FALSE,
                         <<Point(metric, EmptyMap, "float64", Len(items))>>)
         /\ LoopStep(kind, FALSE)

processFirewallRules ==
    /\ AtCall("pull", "processFirewallRules")
    /\ processLabeled("processFirewallRules", "gce_firewall_rules", "network", NetworkNames)

processTargetPools ==
    /\ AtCall("pull", "processTargetPools")
    /\ processCount("processTargetPools", "gce_target_pools")

processForwadingRules ==
    /\ AtCall("pull", "processForwadingRules")
    /\ processCount("processForwadingRules", "gce_forwarding_rules")

processAddresses ==
    /\ AtCall("pull", "processAddresses")
    /\ processLabeled("processAddresses", "gce_ip_addresses", "status", Statuses)

processNetworks ==
    /\ AtCall("pull", "processNetworks")
    /\ processCount("processNetworks", "gce_networks")

processRoutes ==
    /\ AtCall("pull", "processRoutes")
    /\ processCount("processRoutes", "gce_routes")

(* ------------------ part_000: the metrics listener ---------------------- *)
\* main's `go runPrometheusHandler(*port)`, between the last MustRegister and
\* runScraper: the goroutine installs the handler and listens.  (The listener
\* is taken to be up when the loop starts; a ListenAndServe that fails returns
\* an error nobody reads and no request is ever handled.)
runPrometheusHandler ==
    /\ variant = "pull"
    /\ pc = "spawn"
    /\ listener = "off"
    /\ listener' = "listening"
    /\ pc' = "scrape"
    /\ UNCHANGED <<variant, idx, registered, gauges, lastOp, cycleLog, cycleFailed>>

\* a GET /metricsz arrives: net/http starts prometheus.Handler() for it
AcceptScrape ==
    /\ variant = "pull"
    /\ listener = "listening"
    /\ listener' = "serving"
    /\ UNCHANGED <<variant, pc, idx, registered, gauges, lastOp, cycleLog, cycleFailed>>

\* faulty variant of ServeMetricsz: the handler refreshes the routes gauge
\* from a fetch of its own before it answers
ServeMetricszRefetching ==
    /\ variant = "pull"
    /\ listener = "serving"
    /\ listener' = "listening"
    /\ \E items \in CountResponses :
          gauges' = [gauges EXCEPT !["gce_routes"] = SetChild(@, NoLabel, Len(items))]
    /\ UNCHANGED <<variant, pc, idx, registered, lastOp, cycleLog, cycleFailed>>

\* prometheus.Handler() reads every registered gauge and writes the response
\* to the connection: nothing of the process but the request is changed
ServeMetricsz ==
    /\ variant = "pull"
    /\ listener = "serving"
    /\ listener' = "listening"
    /\ UNCHANGED <<variant, pc, idx, registered, gauges, lastOp, cycleLog, cycleFailed>>

(* --------------------------- specification ----------------------------- *)
Next ==
    \/ createMetricDescriptor
    \/ CreateMetricDescriptors
    \/ MustRegister
    \/ FirewallRules_ProcessMetric
    \/ TargetPools_ProcessMetric
    \/ ForwardingRules_ProcessMetric
    \/ GlobalForwardingRules_ProcessMetric
    \/ Addresses_ProcessMetric
    \/ GlobalAddresses_ProcessMetric
    \/ Networks_ProcessMetric
    \/ Routes_ProcessMetric
    \/ ProcessFirewallRules
    \/ ProcessIPAddresses
    \/ ProcessForwardingRules
    \/ ProcessNetworks
    \/ ProcessRoutes
    \/ ProcessTargetPools
    \/ processFirewallRules
    \/ processForwadingRules
    \/ processTargetPools
    \/ processRoutes
    \/ processNetworks
    \/ processAddresses
    \/ Sleep
    \/ runPrometheusHandler
    \/ AcceptScrape
    \/ ServeMetricsz

Spec == Init /\ [][Next]_vars

\* a step of the goroutine that runs the scrape loop
LoopNext ==
    \/ FirewallRules_ProcessMetric
    \/ TargetPools_ProcessMetric
    \/ ForwardingRules_ProcessMetric
    \/ GlobalForwardingRules_ProcessMetric
    \/ Addresses_ProcessMetric
    \/ GlobalAddresses_ProcessMetric
    \/ Networks_ProcessMetric
    \/ Routes_ProcessMetric
    \/ ProcessFirewallRules
    \/ ProcessIPAddresses
    \/ ProcessForwardingRules
    \/ ProcessNetworks
    \/ ProcessRoutes
    \/ ProcessTargetPools
    \/ processFirewallRules
    \/ processForwadingRules
    \/ processTargetPools
    \/ processRoutes
    \/ processNetworks
    \/ processAddresses
    \/ Sleep

\* the loop's goroutine is always runnable and gets to run; every list call,
\* report call and time.Sleep it makes returns
FairSpec == Init /\ [][Next]_vars /\ WF_vars(LoopNext)

(* ---------------------------- properties -------------------------------- *)
PushVariants == {"push", "pushgce"}

\* the name a metric has at the sink
SinkName(metric) == IF variant = "pull" THEN metric ELSE Namespaced(metric)

\* every descriptor the running program declares
AllDeclared ==
    CASE variant = "push" ->
           {CustomDescriptor(MetricDescription(customMetrics[i]), "int64") :
              i \in 1..Len(customMetrics)}
      [] variant = "pushgce" ->
           {CustomDescriptor(metricDescriptions[i], "double") :
              i \in 1..Len(metricDescriptions)}
      [] variant = "pull" ->
           {Descriptor(promGauges[i].Name, "float64", promGauges[i].Labels) :
              i \in 1..Len(promGauges)}

\* the label keys registered for the metric of the last process call
LastDeclaredKeys ==
    UNION {{d.labels[j] : j \in DOMAIN d.labels} :
             d \in {e \in registered : e.name = SinkName(lastOp.metric)}}

\* the last process call got a response (its fetch and decode succeeded)
LastFetched == lastOp.outcome \in {"ok", "reportErr"}

\* the process calls that group their resources by a field
Aggregating ==
    {"FirewallRules", "Addresses", "GlobalAddresses",
     "ProcessFirewallRules", "ProcessIPAddresses",
     "processFirewallRules", "processAddresses"}

RECURSIVE SumValues(_)
SumValues(points) ==
    IF points = <<>> THEN 0 ELSE Head(points).value + SumValues(Tail(points))

\* the value of the single label a point carries
LabelValue(p) == p.labels[CHOOSE k \in DOMAIN p.labels : TRUE]

NoRepeat(log) == \A i, j \in DOMAIN log : i # j => log[i] # log[j]

\* C1: a failed process call never ends the cycle or the loop: the calls of a
\* cycle are made one after the other whatever their outcome, the loop sleeps
\* exactly when every configured metric kind has been processed, and once the
\* loop runs the program always has a next step.
C1_FailureContained ==
    (pc \in {"scrape", "sleep"} \/ lastOp # NoOp) =>
        /\ pc \in {"scrape", "sleep"}
        /\ cycleLog = SubSeq(Calls, 1, Len(cycleLog))
        /\ (pc = "sleep") = (cycleLog = Calls)
        /\ pc = "scrape" => idx = Len(cycleLog) + 1
        /\ ENABLED Next

\* a cycle ran to its sleep, every kind processed, although a call in it failed
C1_Witness ==
    /\ pc = "sleep"
    /\ cycleFailed
    /\ cycleLog = Calls
    /\ lastOp.outcome = "ok"

\* C2: pull: after a labeled metric's fetch and decode succeeded, the exposed
\* children of its gauge vector are exactly that cycle's mapping.
C2_ExposedIsCycleMapping ==
    (variant = "pull" /\ LastFetched /\ lastOp.kind \in Aggregating) =>
        gauges[lastOp.metric] = lastOp.metrics

\* C3: push: every point written carries exactly the label keys registered
\* for its metric.
C3_LabelKeysAsRegistered ==
    (variant \in PushVariants /\ lastOp.wrote) =>
        \A i \in DOMAIN lastOp.points :
            DOMAIN lastOp.points[i].labels = LastDeclaredKeys

\* C4: for a metric declared with a label, the values of the observations
\* one process call emits add up to the number of resources it fetched.
C4_SumEqualsFetched ==
    (LastFetched /\ LastDeclaredKeys # {}) =>
        SumValues(lastOp.points) = lastOp.total

\* an aggregated addresses list: two scopes, two addresses of one status
C4_Witness ==
    /\ lastOp.kind = "Addresses"
    /\ LastFetched
    /\ lastOp.scopes = 2
    /\ lastOp.total = 2
    /\ Len(lastOp.points) = 1

\* C5: for a metric declared without labels, the one value reported is the
\* number of resources fetched (for an aggregated list: over all scopes).
C5_CountEqualsFetched ==
    (LastFetched /\ LastDeclaredKeys = {}) =>
        /\ Len(lastOp.points) = 1
        /\ lastOp.points[1].value = lastOp.total

\* C6: push: when the mapping of a grouping metric is empty, no write call
\* is made.
C6_NoWriteWhenEmpty ==
    (variant \in PushVariants /\ LastFetched /\ lastOp.kind \in Aggregating
        /\ lastOp.metrics = EmptyMap) =>
        ~lastOp.wrote

\* C7: a fetch that returns no resources gives no observation for a metric
\* declared with a label and exactly one observation of value 0 for a metric
\* declared without.
C7_EmptyFetch ==
    (LastFetched /\ lastOp.total = 0) =>
        IF LastDeclaredKeys # {}
        THEN lastOp.points = <<>>
        ELSE /\ Len(lastOp.points) = 1
             /\ lastOp.points[1].value = 0

\* C8: a non-empty mapping is emitted as one observation per bucket: each
\* carries one label, no label value twice, every bucket named, and the value
\* is the count of the bucket the label names.
C8_OnePointPerBucket ==
    (LastFetched /\ lastOp.kind \in Aggregating /\ lastOp.metrics # EmptyMap) =>
        /\ Len(lastOp.points) = Cardinality(DOMAIN lastOp.metrics)
        /\ \A i \in DOMAIN lastOp.points :
              /\ Cardinality(DOMAIN lastOp.points[i].labels) = 1
              /\ LabelValue(lastOp.points[i]) \in DOMAIN lastOp.metrics
              /\ lastOp.points[i].value = lastOp.metrics[LabelValue(lastOp.points[i])]
        /\ \A i, j \in DOMAIN lastOp.points :
              i # j => LabelValue(lastOp.points[i]) # LabelValue(lastOp.points[j])
        /\ {LabelValue(lastOp.points[i]) : i \in DOMAIN lastOp.points}
              = DOMAIN lastOp.metrics

\* records a, a, b: two observations, (a, 2) and (b, 1)
C8_Witness ==
    /\ LastFetched
    /\ lastOp.kind \in Aggregating
    /\ lastOp.total = 3
    /\ Len(lastOp.points) = 2
    /\ lastOp.points[1].value = 2
    /\ lastOp.points[2].value = 1

\* C9: a process call whose fetch or decode fails writes nothing, leaves every
\* exposed gauge value as it was, and is made once per cycle only.
C9_FailedFetchSkips ==
    [][(/\ Len(cycleLog') = Len(cycleLog) + 1
        /\ lastOp'.outcome \in {"fetchErr", "decodeErr"})
       => /\ gauges' = gauges
          /\ ~lastOp'.wrote
          /\ lastOp'.points = <<>>
          /\ cycleLog' = Append(cycleLog, lastOp'.kind)
          /\ NoRepeat(cycleLog')]_vars

\* the routes fetch failed in a later cycle and the gauge still shows the
\* count an earlier cycle set
C9_Witness ==
    /\ variant = "pull"
    /\ lastOp.kind = "processRoutes"
    /\ lastOp.outcome = "fetchErr"
    /\ gauges["gce_routes"][NoLabel] = 1

\* C10: push: the loop runs, and anything is fetched or written, only after
\* every declared descriptor was registered; after a failed registration the
\* process has ended without a fetch or a write.
C10_RegisteredBeforeScrape ==
    variant \in PushVariants =>
        /\ (pc \in {"scrape", "sleep"} \/ lastOp # NoOp \/ cycleLog # <<>>)
              => registered = AllDeclared
        /\ pc = "fatal" =>
              /\ lastOp = NoOp
              /\ cycleLog = <<>>
              /\ registered # AllDeclared
              /\ ~ENABLED Next

\* some registrations succeeded, then one failed
C10_Witness ==
    /\ variant = "push"
    /\ pc = "fatal"
    /\ registered # {}

\* a step of runScraper's loop
ScraperStep ==
    \/ processFirewallRules
    \/ processForwadingRules
    \/ processTargetPools
    \/ processRoutes
    \/ processNetworks
    \/ processAddresses
    \/ Sleep

\* C11: pull: accepting and answering a scrape request changes nothing but the
\* request itself (no fetch is made, no gauge is set, the loop stays where it
\* is), and the loop can take its next step whatever the listener is doing.
C11_ListenerOnlyReads ==
    /\ [](variant = "pull" /\ pc \in {"scrape", "sleep"} => ENABLED ScraperStep)
    /\ [][(listener \in {"listening", "serving"} /\ listener' # listener)
          => UNCHANGED <<pc, idx, registered, gauges, lastOp, cycleLog, cycleFailed>>]_vars

\* a request is being served in the middle of a cycle that has set a gauge
C11_Witness ==
    /\ variant = "pull"
    /\ listener = "serving"
    /\ pc = "scrape"
    /\ cycleLog # <<>>
    /\ gauges["gce_firewall_rules"] # EmptyMap

\* C12: the process calls of a cycle are made in the configured order, each
\* once, each by a step of the loop at its own position; the sleep follows the
\* last call, and a new cycle starts only from the sleep of a complete one.
C12_CyclesInOrder ==
    [][cycleLog' # cycleLog =>
         \/ /\ pc = "scrape"
            /\ idx = Len(cycleLog) + 1
            /\ idx <= Len(Calls)
            /\ cycleLog' = Append(cycleLog, Calls[idx])
            /\ lastOp'.kind = Calls[idx]
            /\ NoRepeat(cycleLog')
            /\ pc' = IF idx = Len(Calls) THEN "sleep" ELSE "scrape"
            /\ pc' = "scrape" => idx' = idx + 1
         \/ /\ pc = "sleep"
            /\ cycleLog = Calls
            /\ cycleLog' = <<>>
            /\ pc' = "scrape"
            /\ idx' = 1]_vars

\* the first call of a later cycle has run: the gauge the last call of a cycle
\* sets already has children
C12_Witness ==
    /\ variant = "pull"
    /\ cycleLog = <<"processFirewallRules">>
    /\ lastOp.kind = "processFirewallRules"
    /\ gauges["gce_ip_addresses"] # EmptyMap

LoopStarted == pc \in {"scrape", "sleep"}

\* C13: once the loop runs it never ends: again and again a cycle completes
\* with every configured metric kind fetched, and again and again a new cycle
\* begins, whatever failed before.
C13_LoopNeverEnds ==
    /\ LoopStarted ~> (pc = "sleep" /\ cycleLog = Calls)
    /\ LoopStarted ~> (pc = "scrape" /\ cycleLog = <<>>)

\* a new cycle has begun although the last call of the cycle before failed
C13_Witness ==
    /\ variant = "pushgce"
    /\ pc = "scrape"
    /\ cycleLog = <<>>
    /\ lastOp.kind = "ProcessTargetPools"
    /\ lastOp.outcome = "fetchErr"

\* the Point field that carries a value of a descriptor's value type
ValueField(valueType) ==
    CASE valueType = "int64" -> "Int64Value"
      [] valueType = "double" -> "DoubleValue"
      [] OTHER -> "none"

\* C14: push: every point written names a metric that was registered, and
\* carries its value in the field of the value type registered for it.
C14_WrittenAsRegistered ==
    (variant \in PushVariants /\ lastOp.wrote) =>
        \A i \in DOMAIN lastOp.points :
            \E d \in registered :
                /\ d.name = lastOp.points[i].metric
                /\ d.name = Namespaced(lastOp.metric)
                /\ ValueField(d.valueType) = lastOp.points[i].field

\* two points of gce_global_addresses, one per status, were written
C14_Witness ==
    /\ variant = "push"
    /\ lastOp.kind = "GlobalAddresses"
    /\ lastOp.wrote
    /\ Len(lastOp.points) = 2
    /\ lastOp.points[1].field = "Int64Value"

====
